---- MODULE Spec2Model ----
(***************************************************************************)
(* The batch fetch of src/main.py: main() fans one fetch_user_data         *)
(* coroutine out per username under an asyncio.Semaphore and joins them    *)
(* with asyncio.gather.  Every await of a coroutine is a step of the       *)
(* model; the code between two awaits runs atomically on the event loop.   *)
(***************************************************************************)
EXTENDS Integers, Sequences, FiniteSets

VARIABLES
    usernames,    \* main's argument: the list of usernames (read only)
    pc,           \* per task: the await the coroutine is suspended at
    attempt,      \* per task: the loop variable of range(RETRIES)
    data,         \* per task: the local `data` (the parsed profile)
    ret,          \* per task: what the coroutine returned or raised
    value,        \* the semaphore's counter of free slots
    mainpc,       \* main: at the gather, returned, or unwound by an exception
    results,      \* main's return value
    profileGets,  \* history, per task: profile GETs issued
    imageGets,    \* history, per task: image GETs issued in the attempt in progress
    sleeps,       \* history, per task: backoff sleeps started
    fails,        \* history, per task: attempts the transport made fail
    imageFails,   \* history, per task: attempts that failed on the image GET
    order         \* history: the tasks in the order they finished

vars == <<usernames, pc, attempt, data, ret, value, mainpc, results,
          profileGets, imageGets, sleeps, fails, imageFails, order>>

---------------------------------------------------------------------------
(* Program constants and the bounds of the model.                          *)

\* src/main.py sets CONCURRENCY_LIMIT = 20; the model runs the same gate
\* with fewer slots so that batches below, at and above the limit are all
\* explored.
CONCURRENCY_LIMIT == 1
RETRIES == 3
\* Longest input list explored.
MaxBatch == 2

Names == {"a", "b"}

\* The input lists explored: a, b, a, b, ... of every length up to
\* MaxBatch (the empty list among them) and the list with the same name
\* twice.
Alternating(n) == [i \in 1..n |-> IF i % 2 = 1 THEN "a" ELSE "b"]
Inputs == {Alternating(n) : n \in 0..MaxBatch} \cup {<<"a", "a">>}

\* One task although the list is empty (the list "".split(",") gives).
TasksAtLeastOne == 1..(IF Len(usernames) = 0 THEN 1 ELSE Len(usernames))

\* One task per distinct username (tasks made from set(usernames)).
TasksDeduped == 1..Cardinality({usernames[i] : i \in 1..Len(usernames)})

\* lines 81-82: one coroutine per element of usernames, in its order.
Tasks == 1..Len(usernames)

---------------------------------------------------------------------------
(* Values.                                                                 *)

\* The local `data` before line 56 has assigned it.
NoData == [set |-> FALSE, username |-> "", src |-> 0, avatar |-> FALSE, image |-> 0]

\* A coroutine that has not finished.
Pending == [kind |-> "pending", username |-> "", cause |-> "", at |-> 0,
            profile |-> 0, avatar |-> FALSE, image |-> 0]

\* What the transport answers: a status, and for the profile whether the
\* body decodes and whether it names an avatar.
Statuses == {200, 404}
ProfileResponses == [status : Statuses, parses : BOOLEAN, avatar : BOOLEAN]

\* The transport did its part of the attempt.
Good(r) == r.status = 200 /\ r.parses

\* The body sent with a status in attempt `at`: the resource as that attempt
\* saw it, or an error page.
Body(status, at) == IF status = 200 THEN at ELSE -1

\* The causes of the exceptions lines 53-64 raise.
Causes == {"HTTP Error", "HTTP Error avatar", "network", "malformed body"}

\* An exception: its class, its cause and the attempt (1-based) it was raised in.
Exc(class, cause, at) == [class |-> class, cause |-> cause, at |-> at]

---------------------------------------------------------------------------
(* The pieces of fetch_user_data and main, as operators.                   *)

\* line 82: the coroutine of position i is created with usernames[i].
TaskUsername(names, i) == names[i]

\* A semaphore created with one slot too many.
SemaphoreOver == CONCURRENCY_LIMIT + 1

\* A semaphore created with one slot too few.
SemaphoreShort == CONCURRENCY_LIMIT - 1

\* line 79: asyncio.Semaphore(CONCURRENCY_LIMIT).
SemaphoreInit == CONCURRENCY_LIMIT

\* A gate that admits every caller.
NeverLocked(v) == FALSE

\* line 52, `async with semaphore` on entry: acquire() suspends while no slot is free.
Locked(v) == v = 0

\* An entry that takes no slot.
TakeNothing(v) == v

\* line 52, `async with semaphore` on entry: acquire() takes a free slot.
AcquireSlot(v) == v - 1

\* An exit that keeps the slot.
KeepSlot(v) == v

\* line 52, `async with semaphore` left by the return of line 68.
ReleaseOnReturn(v) == v + 1

\* line 52, `async with semaphore` left by an exception.
ReleaseOnError(v) == v + 1

\* A task is inside the `async with semaphore` block.
InBlock(p) == p \in {"profile", "image"}

\* A status test that lets every response through.
AnyStatusOk(status) == TRUE

\* line 54: if response.status != 200: raise.
ProfileStatusOk(status) == status = 200

\* line 62: if avatar_response.status != 200: raise.
AvatarStatusOk(status) == status = 200

\* line 56: data = await response.json(), the profile of the requested
\* username as attempt `at` received it.
ParsedProfile(name, at, hasAvatar) ==
    [set |-> TRUE, username |-> name, src |-> at, avatar |-> hasAvatar, image |-> 0]

\* An avatar test that fetches an image for every profile.
AlwaysNeedsAvatar(d) == TRUE

\* lines 59-60: avatar_url = data.get('avatar'); if avatar_url.
NeedsAvatar(d) == d.avatar

\* line 65: data['avatar_image'] = avatar_content.
WithAvatar(d, content) == [d EXCEPT !.image = content]

\* line 67: data['avatar_image'] = None.
WithoutAvatar(d) == [d EXCEPT !.image = 0]

\* line 68: return data.
SuccessResult(d) ==
    [kind |-> "Success", username |-> d.username, cause |-> "", at |-> 0,
     profile |-> d.src, avatar |-> d.avatar, image |-> d.image]

\* A handler for transport errors only (except aiohttp.ClientError).
CatchesClientError(e) == e.class = "Exception" /\ e.cause # "malformed body"

\* line 69: except Exception.
Catches(e) == e.class = "Exception"

\* A retry test that is true of every value of range(RETRIES).
MoreAttemptsAlways(a) == a < RETRIES

\* A retry test that gives up one attempt early.
MoreAttemptsShort(a) == a < RETRIES - 2

\* line 70: if attempt < RETRIES - 1.
MoreAttempts(a) == a < RETRIES - 1

\* An error message that leaves the username out.
ErrorResultNoName(name, e) ==
    [kind |-> "Failure", username |-> "", cause |-> e.cause, at |-> e.at,
     profile |-> 0, avatar |-> FALSE, image |-> 0]

\* line 74: return {"error": f"An error occurred for @{username}: {str(e)}"}.
ErrorResult(name, e) ==
    [kind |-> "Failure", username |-> name, cause |-> e.cause, at |-> e.at,
     profile |-> 0, avatar |-> FALSE, image |-> 0]

\* An exception no handler of the coroutine catches ends the coroutine.
RaisedResult(e) ==
    [kind |-> "raised", username |-> "", cause |-> e.cause, at |-> 0,
     profile |-> 0, avatar |-> FALSE, image |-> 0]

\* The for loop of line 50 ran out without a return: the coroutine returns None.
NoneResult ==
    [kind |-> "None", username |-> "", cause |-> "", at |-> 0,
     profile |-> 0, avatar |-> FALSE, image |-> 0]

\* Results delivered in the order the tasks finished (asyncio.as_completed).
AsCompletedResults(rets, o) == [k \in 1..Len(o) |-> rets[o[k]]]

\* line 83: gather's result list follows the order of the awaitables passed
\* to it, whatever the order o they finished in.
GatherResults(rets, o) == [i \in 1..Len(rets) |-> rets[i]]

\* A join that resolves with the first awaitable that has returned
\* (asyncio.wait with FIRST_COMPLETED).
FirstCompleted(pcs) == \E i \in DOMAIN pcs : pcs[i] = "done"

\* line 83: gather resolves with its list when every awaitable has returned.
GatherReady(pcs) == \A i \in DOMAIN pcs : pcs[i] = "done"

Finished(p) == p \in {"done", "raised"}

\* Some task finished before a task of a lower index did.
Overtaken(o) == \E k \in 1..Len(o) : \E j \in 1..(o[k] - 1) : \A m \in 1..k : o[m] # j

---------------------------------------------------------------------------
Init ==
    /\ usernames \in Inputs
    /\ pc = [i \in Tasks |-> "acquire"]
    /\ attempt = [i \in Tasks |-> 0]
    /\ data = [i \in Tasks |-> NoData]
    /\ ret = [i \in Tasks |-> Pending]
    /\ value = SemaphoreInit
    /\ mainpc = "gather"
    /\ results = <<>>
    /\ profileGets = [i \in Tasks |-> 0]
    /\ imageGets = [i \in Tasks |-> 0]
    /\ sleeps = [i \in Tasks |-> 0]
    /\ fails = [i \in Tasks |-> 0]
    /\ imageFails = [i \in Tasks |-> 0]
    /\ order = <<>>

\* The coroutine of task i ends with result r; its locals die with it.
Finish(i, p, r) ==
    /\ pc' = [pc EXCEPT ![i] = p]
    /\ ret' = [ret EXCEPT ![i] = r]
    /\ data' = [data EXCEPT ![i] = NoData]
    /\ order' = Append(order, i)

\* lines 52-53: a slot is free, the task takes it and issues the profile GET.
Acquire(i) ==
    /\ pc[i] = "acquire"
    /\ ~Locked(value)
    /\ value' = AcquireSlot(value)
    /\ pc' = [pc EXCEPT ![i] = "profile"]
    /\ profileGets' = [profileGets EXCEPT ![i] = @ + 1]
    /\ UNCHANGED <<usernames, attempt, data, ret, mainpc, results, imageGets, sleeps,
                   fails, imageFails, order>>

\* A handler that sleeps before it tests whether an attempt is left, and so
\* sleeps after the last failed attempt as well.
RaiseSleepsFirst(i, e, holding) ==
    /\ value' = IF holding THEN ReleaseOnError(value) ELSE value
    /\ IF Catches(e)
       THEN /\ sleeps' = [sleeps EXCEPT ![i] = @ + 1]
            /\ IF MoreAttempts(attempt[i])
               THEN /\ pc' = [pc EXCEPT ![i] = "sleep"]
                    /\ imageGets' = [imageGets EXCEPT ![i] = 0]
                    /\ UNCHANGED <<ret, data, order>>
               ELSE /\ Finish(i, "done", ErrorResult(TaskUsername(usernames, i), e))
                    /\ UNCHANGED imageGets
       ELSE /\ Finish(i, "raised", RaisedResult(e))
            /\ UNCHANGED <<sleeps, imageGets>>

\* lines 69-74 after the `async with` blocks have unwound: exception e leaves
\* the guarded block of task i, which held a slot iff `holding`.
Raise(i, e, holding) ==
    /\ value' = IF holding THEN ReleaseOnError(value) ELSE value
    /\ IF Catches(e)
       THEN IF MoreAttempts(attempt[i])
            THEN /\ pc' = [pc EXCEPT ![i] = "sleep"]
                 /\ sleeps' = [sleeps EXCEPT ![i] = @ + 1]
                 /\ imageGets' = [imageGets EXCEPT ![i] = 0]
                 /\ UNCHANGED <<ret, data, order>>
            ELSE /\ Finish(i, "done", ErrorResult(TaskUsername(usernames, i), e))
                 /\ UNCHANGED <<sleeps, imageGets>>
       ELSE /\ Finish(i, "raised", RaisedResult(e))
            /\ UNCHANGED <<sleeps, imageGets>>

\* lines 53-60, 66-68: the profile GET is answered.  A status other than 200
\* raises at line 55, a body that does not decode raises at line 56; without
\* an avatar reference the task returns, with one it issues the image GET
\* (line 61).
ProfileResponse(i) ==
    /\ pc[i] = "profile"
    /\ \E r \in ProfileResponses :
         /\ fails' = [fails EXCEPT ![i] = IF Good(r) THEN @ ELSE @ + 1]
         /\ IF ~ProfileStatusOk(r.status)
            THEN Raise(i, Exc("Exception", "HTTP Error", attempt[i] + 1), TRUE)
            ELSE IF ~r.parses
            THEN Raise(i, Exc("Exception", "malformed body", attempt[i] + 1), TRUE)
            ELSE LET d == ParsedProfile(TaskUsername(usernames, i),
                                        Body(r.status, attempt[i] + 1), r.avatar) IN
                 IF NeedsAvatar(d)
                 THEN /\ pc' = [pc EXCEPT ![i] = "image"]
                      /\ data' = [data EXCEPT ![i] = d]
                      /\ imageGets' = [imageGets EXCEPT ![i] = @ + 1]
                      /\ UNCHANGED <<value, ret, order, sleeps>>
                 ELSE /\ Finish(i, "done", SuccessResult(WithoutAvatar(d)))
                      /\ value' = ReleaseOnReturn(value)
                      /\ UNCHANGED <<imageGets, sleeps>>
    /\ UNCHANGED <<usernames, attempt, mainpc, results, profileGets, imageFails>>

\* lines 53, 56: the connection fails while the profile is requested or read.
ProfileFault(i) ==
    /\ pc[i] = "profile"
    /\ Raise(i, Exc("Exception", "network", attempt[i] + 1), TRUE)
    /\ fails' = [fails EXCEPT ![i] = @ + 1]
    /\ UNCHANGED <<usernames, attempt, mainpc, results, profileGets, imageFails>>

\* lines 61-68: the image GET is answered.  A status other than 200 raises at
\* line 63; otherwise the bytes read are stored and the task returns.
ImageResponse(i) ==
    /\ pc[i] = "image"
    /\ \E status \in Statuses :
         /\ fails' = [fails EXCEPT ![i] = IF status = 200 THEN @ ELSE @ + 1]
         /\ imageFails' = [imageFails EXCEPT ![i] = IF status = 200 THEN @ ELSE @ + 1]
         /\ IF ~AvatarStatusOk(status)
            THEN Raise(i, Exc("Exception", "HTTP Error avatar", attempt[i] + 1), TRUE)
            ELSE /\ Finish(i, "done",
                           SuccessResult(WithAvatar(data[i], Body(status, attempt[i] + 1))))
                 /\ value' = ReleaseOnReturn(value)
                 /\ UNCHANGED <<imageGets, sleeps>>
    /\ UNCHANGED <<usernames, attempt, mainpc, results, profileGets>>

\* lines 61, 64: the connection fails while the image is requested or read.
ImageFault(i) ==
    /\ pc[i] = "image"
    /\ Raise(i, Exc("Exception", "network", attempt[i] + 1), TRUE)
    /\ fails' = [fails EXCEPT ![i] = @ + 1]
    /\ imageFails' = [imageFails EXCEPT ![i] = @ + 1]
    /\ UNCHANGED <<usernames, attempt, mainpc, results, profileGets>>

\* An exception that is no subclass of Exception (asyncio.CancelledError,
\* KeyboardInterrupt) is raised at the await task i is suspended at.
BaseFault(i) ==
    /\ pc[i] \in {"acquire", "profile", "image", "sleep"}
    /\ Raise(i, Exc("BaseException", "cancelled", attempt[i] + 1), InBlock(pc[i]))
    /\ UNCHANGED <<usernames, attempt, mainpc, results, profileGets, fails, imageFails>>

\* A retry that, when the profile of the failed attempt had been parsed,
\* repeats the image GET alone.
WakeRetryImage(i) ==
    /\ pc[i] = "sleep"
    /\ attempt[i] + 1 < RETRIES
    /\ attempt' = [attempt EXCEPT ![i] = @ + 1]
    /\ pc' = [pc EXCEPT ![i] = IF data[i].set THEN "image" ELSE "acquire"]
    /\ UNCHANGED <<usernames, data, ret, order, value, mainpc, results, profileGets,
                   imageGets, sleeps, fails, imageFails>>

\* lines 71-72 and 50: the sleep ends and `continue` takes the next value of
\* range(RETRIES); when there is none the function falls off its end.
Wake(i) ==
    /\ pc[i] = "sleep"
    /\ IF attempt[i] + 1 < RETRIES
       THEN /\ attempt' = [attempt EXCEPT ![i] = @ + 1]
            /\ pc' = [pc EXCEPT ![i] = "acquire"]
            /\ UNCHANGED <<ret, data, order>>
       ELSE /\ Finish(i, "done", NoneResult)
            /\ UNCHANGED attempt
    /\ UNCHANGED <<usernames, value, mainpc, results, profileGets, imageGets, sleeps,
                   fails, imageFails>>

\* lines 83-84: every awaitable has returned; gather resolves and main returns.
MainReturn ==
    /\ mainpc = "gather"
    /\ GatherReady(pc)
    /\ results' = GatherResults(ret, order)
    /\ mainpc' = "returned"
    /\ UNCHANGED <<usernames, pc, attempt, data, ret, value,
                   profileGets, imageGets, sleeps, fails, imageFails, order>>

\* line 83: gather(return_exceptions=False) passes the first exception of an
\* awaitable on to main, which unwinds.
MainRaise ==
    /\ mainpc = "gather"
    /\ \E i \in Tasks : pc[i] = "raised"
    /\ mainpc' = "raised"
    /\ UNCHANGED <<usernames, pc, attempt, data, ret, value, results,
                   profileGets, imageGets, sleeps, fails, imageFails, order>>

TaskStep(i) ==
    \/ Acquire(i)
    \/ ProfileResponse(i)
    \/ ProfileFault(i)
    \/ ImageResponse(i)
    \/ ImageFault(i)
    \/ Wake(i)

\* A batch run whose faults are all subclasses of Exception.
Next ==
    \/ \E i \in Tasks : Acquire(i)
    \/ \E i \in Tasks : ProfileResponse(i)
    \/ \E i \in Tasks : ProfileFault(i)
    \/ \E i \in Tasks : ImageResponse(i)
    \/ \E i \in Tasks : ImageFault(i)
    \/ \E i \in Tasks : Wake(i)
    \/ MainReturn

Spec == Init /\ [][Next]_vars

\* The same run where exceptions that are no subclass of Exception may be
\* raised at any await as well.
NextCancel ==
    \/ Next
    \/ \E i \in Tasks : BaseFault(i)
    \/ MainRaise

SpecCancel == Init /\ [][NextCancel]_vars

\* The event loop runs every coroutine that is ready, every transport call
\* and every sleep ends, and gather resolves once its awaitables have.
Fairness ==
    /\ \A i \in 1..MaxBatch : WF_vars(i \in Tasks /\ TaskStep(i))
    /\ WF_vars(MainReturn)

FairSpec == Spec /\ Fairness

---------------------------------------------------------------------------
(* Properties.                                                             *)

Holders == {i \in Tasks : InBlock(pc[i])}
Waiters == {i \in Tasks : pc[i] = "acquire" /\ Locked(value)}

\* C1: when main has returned, its list is as long as the input and its
\* element at position i is what the task started for usernames[i] returned,
\* an outcome for that very username, whatever order the tasks finished in.
C1_PositionsPreserved ==
    mainpc = "returned" =>
        /\ Len(results) = Len(usernames)
        /\ \A i \in Tasks :
              /\ results[i] = ret[i]
              /\ results[i].kind \in {"Success", "Failure"}
              /\ results[i].username = usernames[i]

\* C1 witness: main returned a batch of distinct names in which a task
\* finished before a task of a lower index.
C1_Witness ==
    /\ mainpc = "returned"
    /\ Len(usernames) >= 2
    /\ usernames[1] # usernames[2]
    /\ Overtaken(order)

\* C2: at most CONCURRENCY_LIMIT tasks are inside the semaphore's block at
\* any time, for every batch size.
C2_GateBound == Cardinality(Holders) <= CONCURRENCY_LIMIT

\* C2 witness: a batch larger than the limit, the gate full and a task
\* waiting for a slot.
C2_Witness ==
    /\ Len(usernames) > CONCURRENCY_LIMIT
    /\ Cardinality(Holders) = CONCURRENCY_LIMIT
    /\ Waiters # {}

\* C3: a task all of whose attempts failed has issued exactly RETRIES profile
\* GETs and returned a Failure: a Failure is returned after RETRIES failed
\* attempts and RETRIES profile GETs, never after fewer, and no task issues
\* more than RETRIES profile GETs.
C3_ExactlyRetriesAttempts ==
    \A i \in Tasks :
        /\ profileGets[i] <= RETRIES
        /\ fails[i] = RETRIES =>
              pc[i] = "done" /\ ret[i].kind = "Failure" /\ profileGets[i] = RETRIES
        /\ (Finished(pc[i]) /\ fails[i] = profileGets[i]) =>
              ret[i].kind = "Failure" /\ fails[i] = RETRIES
        /\ ret[i].kind = "Failure" => fails[i] = RETRIES /\ profileGets[i] = RETRIES

\* C3 witness: a task whose three attempts failed, one of them on the image
\* GET, has returned its Failure.
C3_Witness ==
    \E i \in Tasks :
        /\ ret[i].kind = "Failure"
        /\ imageFails[i] >= 1
        /\ fails[i] = RETRIES

\* C4: no task is ended by an exception and main is never unwound; a task
\* all of whose attempts failed returns a Failure and a task whose first
\* attempt succeeded returns a Success of that attempt, whatever the other
\* tasks of the batch do, and main returns each at the position of its
\* username.
C4_FailuresIsolated ==
    /\ mainpc # "raised"
    /\ \A i \in Tasks :
          /\ pc[i] # "raised"
          /\ pc[i] = "done" =>
                /\ ret[i].username = usernames[i]
                /\ fails[i] = RETRIES => ret[i].kind = "Failure"
                /\ fails[i] = 0 => ret[i].kind = "Success" /\ ret[i].profile = 1
          /\ mainpc = "returned" => results[i] = ret[i]

\* C4 witness: main returned a batch in which one task failed three times and
\* another succeeded on its first attempt, and the one that succeeded had
\* finished first although it comes later in the input.
C4_Witness ==
    /\ mainpc = "returned"
    /\ \E i, j \in Tasks :
          /\ i < j
          /\ fails[i] = RETRIES /\ results[i].kind = "Failure"
          /\ fails[j] = 0 /\ results[j].kind = "Success"
          /\ order = <<j, i>>

\* C5: no exception raised while a task fetches ever leaves fetch_user_data:
\* no coroutine ends by raising and main is never unwound at its gather.
C5_NoFaultEscapes ==
    /\ mainpc # "raised"
    /\ \A i \in Tasks : pc[i] # "raised"

\* C6: a Success whose profile names an avatar comes from one attempt in
\* which the profile GET and the image GET both succeeded: its profile and
\* its image bytes are those of the attempt that followed all the failed
\* ones, the last attempt made.
C6_SuccessIsOneAttempt ==
    \A i \in Tasks :
        ret[i].kind = "Success" =>
            /\ ret[i].profile = fails[i] + 1
            /\ ret[i].profile = attempt[i] + 1
            /\ ret[i].profile = profileGets[i]
            /\ ret[i].avatar => ret[i].image = ret[i].profile

\* C6 witness: an attempt got the profile and failed on the image, and a
\* later attempt succeeded on both.
C6_Witness ==
    \E i \in Tasks :
        /\ ret[i].kind = "Success"
        /\ ret[i].avatar
        /\ imageFails[i] >= 1
        /\ ret[i].image = ret[i].profile

\* C7: a profile without an avatar reference ends the task at once with a
\* Success that has no image: no image GET is issued in that attempt, no
\* task waits for an image without an avatar reference, and no attempt
\* follows.
C7_NoAvatarNoImageGet ==
    \A i \in Tasks :
        /\ pc[i] = "image" => data[i].avatar
        /\ (ret[i].kind = "Success" /\ ~ret[i].avatar) =>
              /\ ret[i].image = 0
              /\ imageGets[i] = 0
              /\ profileGets[i] = ret[i].profile
              /\ attempt[i] + 1 = ret[i].profile

\* C7 witness: a task returned a Success without an image on its second
\* attempt, after a first attempt that had failed on the image GET.
C7_Witness ==
    \E i \in Tasks :
        /\ ret[i].kind = "Success"
        /\ ~ret[i].avatar
        /\ imageFails[i] = 1
        /\ profileGets[i] = 2

\* C8 as claimed: a task that has acquired a slot for its first profile GET
\* holds a slot until its outcome is produced.
C8_HeldUntilOutcome ==
    \A i \in Tasks : (profileGets[i] >= 1 /\ ~Finished(pc[i])) => InBlock(pc[i])

\* C8 as amended: a slot is held for one attempt.  A task enters the block
\* only from the acquire, taking one slot, straight into its profile GET;
\* the slot count does not move between its profile GET and its image GET;
\* it leaves the block for the backoff sleep or for its outcome and gives
\* the slot back in that same step; a task that sleeps or waits for a retry
\* holds none, the counter and the tasks inside the block adding up to
\* CONCURRENCY_LIMIT.
C8_HeldPerAttempt ==
    [][\A i \in Tasks :
         /\ (~InBlock(pc[i]) /\ InBlock(pc'[i])) =>
               pc[i] = "acquire" /\ pc'[i] = "profile" /\ value' = value - 1
         /\ (pc[i] = "profile" /\ pc'[i] = "image") => value' = value
         /\ (InBlock(pc[i]) /\ ~InBlock(pc'[i])) =>
               /\ pc'[i] \in {"sleep", "done", "raised"}
               /\ value' = value + 1
               /\ value' + Cardinality({j \in Tasks : InBlock(pc'[j])}) = CONCURRENCY_LIMIT
         /\ (pc[i] = "sleep" /\ pc'[i] # "sleep") =>
               pc'[i] \in {"acquire", "raised"} /\ value' = value]_vars

\* C8 witness: a task sleeps between two attempts while another task holds
\* the last slot.
C8_Witness ==
    \E i, j \in Tasks :
        /\ pc[i] = "sleep"
        /\ InBlock(pc[j])
        /\ value = 0

\* C9: no slot leaks: the free slots and the tasks inside the block always
\* add up to CONCURRENCY_LIMIT, so every task that left the block, by a
\* return, a caught error, its last failure or an uncaught exception, gave
\* its slot back, and once every task has finished all CONCURRENCY_LIMIT
\* slots are free.
C9_NoSlotLeak ==
    /\ value + Cardinality(Holders) = CONCURRENCY_LIMIT
    /\ (\A i \in Tasks : Finished(pc[i])) => value = CONCURRENCY_LIMIT
    /\ mainpc = "returned" => value = CONCURRENCY_LIMIT

\* C9 witness: a batch larger than the gate has finished with a Failure
\* after three attempts and with a task ended by an exception raised inside
\* the block of its first attempt, and every slot is free.
C9_Witness ==
    /\ Len(usernames) > CONCURRENCY_LIMIT
    /\ value = CONCURRENCY_LIMIT
    /\ \A i \in Tasks : Finished(pc[i])
    /\ \E i, j \in Tasks :
          /\ ret[i].kind = "Failure"
          /\ ret[j].kind = "raised" /\ profileGets[j] = 1 /\ sleeps[j] = 0

\* C10: under fair scheduling, with every transport call and sleep ending, a
\* task at the gate, for its first attempt or for a retry, is eventually
\* admitted.
C10_EventuallyAdmitted ==
    \A i \in 1..MaxBatch :
        (i \in Tasks /\ pc[i] = "acquire") ~> (i \in Tasks /\ pc[i] = "profile")

\* C10 witness: in a batch larger than the gate a task waits for a slot for a
\* retry while the gate is full.
C10_Witness ==
    /\ Len(usernames) > CONCURRENCY_LIMIT
    /\ \E i \in Tasks : pc[i] = "acquire" /\ attempt[i] >= 1 /\ Locked(value)

C12_ReturnsAfterAllTasks ==
    mainpc = "returned" =>
        /\ \A i \in Tasks : pc[i] = "done" /\ ret[i].kind \in {"Success", "Failure"}
        /\ Len(order) = Len(usernames)
        /\ \A i \in Tasks : results[i].kind \in {"Success", "Failure"}

\* C12 witness: main returned a batch in which one task had finished on its
\* first attempt and another only after two backoff sleeps.
C12_Witness ==
    /\ mainpc = "returned"
    /\ \E i, j \in Tasks : sleeps[i] = 0 /\ sleeps[j] = RETRIES - 1 /\ order = <<i, j>>

\* C13: under fair scheduling every batch run ends with main returned and
\* every task done with one outcome, a Success or a Failure; an outcome once
\* produced never changes; no task issues more than RETRIES profile GETs;
\* and whenever a task waits at the gate every slot is held by another task
\* that is inside the block, so that no task waits for a slot it holds.
C13_Terminates ==
    /\ <>[](/\ mainpc = "returned"
            /\ \A i \in Tasks : pc[i] = "done" /\ ret[i].kind \in {"Success", "Failure"})
    /\ [](\A i \in Tasks :
            /\ profileGets[i] <= RETRIES
            /\ (pc[i] = "acquire" /\ Locked(value)) =>
                  Cardinality(Holders \ {i}) = CONCURRENCY_LIMIT)
    /\ [][\A i \in Tasks : ret[i].kind # "pending" => ret'[i] = ret[i]]_vars

\* C13 witness: main returned a batch larger than the gate in which a task
\* used all its attempts.
C13_Witness ==
    /\ mainpc = "returned"
    /\ Len(usernames) > CONCURRENCY_LIMIT
    /\ \E i \in Tasks : profileGets[i] = RETRIES /\ ret[i].kind = "Failure"

\* C14: for the empty list no task exists, so no slot is taken and no GET
\* is issued, main is not unwound and the list it returns is empty.
C14_EmptyBatch ==
    Len(usernames) = 0 =>
        /\ DOMAIN pc = {}
        /\ DOMAIN profileGets = {} /\ DOMAIN imageGets = {}
        /\ value = CONCURRENCY_LIMIT
        /\ order = <<>>
        /\ mainpc # "raised"
        /\ results = <<>>

\* C14 witness: main has returned for the empty list.
C14_Witness ==
    /\ Len(usernames) = 0
    /\ mainpc = "returned"
    /\ results = <<>>

\* C15: every element of the input, repeated or not, has its own task with
\* its own attempt counter and its own profile GETs, one per attempt begun;
\* when main returns, every position has an outcome for its username, and a
\* task the transport never failed has a Success after exactly one profile
\* GET, so that the input [a, a] with a transport that always succeeds gives
\* two Successes after two profile GETs.
C15_DuplicatesIndependent ==
    /\ DOMAIN pc = 1..Len(usernames)
    /\ \A i \in Tasks :
          profileGets[i] = IF pc[i] = "acquire" THEN attempt[i] ELSE attempt[i] + 1
    /\ mainpc = "returned" =>
          /\ Len(results) = Len(usernames)
          /\ \A i \in Tasks :
                /\ results[i].username = usernames[i]
                /\ fails[i] = 0 => results[i].kind = "Success" /\ profileGets[i] = 1
          /\ (usernames = <<"a", "a">> /\ \A i \in Tasks : fails[i] = 0) =>
                profileGets[1] + profileGets[2] = 2

\* C15 witness: main returned two Successes for [a, a], each after one
\* profile GET.
C15_Witness ==
    /\ usernames = <<"a", "a">>
    /\ mainpc = "returned"
    /\ results[1].kind = "Success" /\ results[2].kind = "Success"
    /\ profileGets = <<1, 1>>

\* C16: an image GET is issued only by the step that received the profile
\* of the same attempt, never on its own after a sleep; when it fails with
\* an attempt left the task gives its slot back and sleeps, and after the
\* sleep it is at the acquire again, before a new profile GET; when it
\* fails on the last attempt the task returns a Failure, although that
\* attempt had received its profile.
C16_ImageFailureRestartsAll ==
    [][\A i \in Tasks :
         /\ (pc[i] # "image" /\ pc'[i] = "image") =>
               /\ pc[i] = "profile"
               /\ data'[i].set /\ data'[i].src = attempt[i] + 1
               /\ profileGets[i] = attempt[i] + 1
         /\ (pc[i] = "image" /\ fails'[i] = fails[i] + 1) =>
               IF attempt[i] + 1 < RETRIES
               THEN pc'[i] = "sleep" /\ ret'[i].kind = "pending" /\ attempt'[i] = attempt[i]
               ELSE /\ pc'[i] = "done"
                    /\ ret'[i].kind = "Failure"
                    /\ data[i].src = RETRIES
         /\ (pc[i] = "sleep" /\ pc'[i] # "sleep") =>
               pc'[i] = "acquire" /\ attempt'[i] = attempt[i] + 1
         /\ (pc[i] = "acquire" /\ pc'[i] # "acquire") =>
               pc'[i] = "profile" /\ profileGets'[i] = profileGets[i] + 1]_vars

\* C16 witness: a task whose image GET had failed in an earlier attempt got
\* the profile again on its last attempt, failed on the image GET again and
\* returned a Failure.
C16_Witness ==
    \E i \in Tasks :
        /\ ret[i].kind = "Failure"
        /\ ret[i].cause = "HTTP Error avatar"
        /\ imageFails[i] >= 2
        /\ profileGets[i] = RETRIES

\* C17: a task has slept once for each attempt it has left behind: never
\* before its first attempt, once more while it sleeps after a failed
\* attempt, not after the attempt that succeeded and not after the failed
\* attempt number RETRIES, so that a task done after n attempts has slept
\* n - 1 times and a Failure follows RETRIES - 1 sleeps.
C17_SleepsBetweenAttempts ==
    \A i \in Tasks :
        /\ sleeps[i] = IF pc[i] = "sleep" THEN attempt[i] + 1 ELSE attempt[i]
        /\ sleeps[i] <= RETRIES - 1
        /\ pc[i] = "sleep" => fails[i] = sleeps[i]
        /\ pc[i] = "done" =>
              /\ sleeps[i] = profileGets[i] - 1
              /\ ret[i].kind = "Success" => sleeps[i] = fails[i]
              /\ ret[i].kind = "Failure" =>
                    sleeps[i] = RETRIES - 1 /\ profileGets[i] = RETRIES

\* C17 witness: one task is done with a Success after two attempts and one
\* sleep, another with a Failure after three attempts and two sleeps.
C17_Witness ==
    \E i, j \in Tasks :
        /\ ret[i].kind = "Success" /\ profileGets[i] = 2 /\ sleeps[i] = 1
        /\ ret[j].kind = "Failure" /\ profileGets[j] = RETRIES /\ sleeps[j] = RETRIES - 1

\* C18: whatever makes an attempt fail (a status other than 200 for the
\* profile or for the image, a connection fault, a body that does not
\* decode), the step in which it fails takes the task to the backoff sleep,
\* with no outcome yet, when an attempt is left, and to a Failure naming
\* that cause when none is left: no cause ends the task early, none is let
\* through.
C18_OneRetryTransition ==
    [][\A i \in Tasks :
         fails'[i] = fails[i] + 1 =>
             /\ InBlock(pc[i])
             /\ IF attempt[i] + 1 < RETRIES
                THEN /\ pc'[i] = "sleep"
                     /\ sleeps'[i] = sleeps[i] + 1
                     /\ ret'[i].kind = "pending"
                ELSE /\ pc'[i] = "done"
                     /\ ret'[i].kind = "Failure"
                     /\ ret'[i].cause \in Causes
                     /\ fails'[i] = RETRIES]_vars

\* C18 witness: two tasks have returned a Failure, one for a status other
\* than 200 on the profile and one for a body that does not decode, and an
\* earlier attempt of the first had failed on the image GET.
C18_Witness ==
    \E i, j \in Tasks :
        /\ ret[i].kind = "Failure" /\ ret[i].cause = "HTTP Error" /\ imageFails[i] >= 1
        /\ ret[j].kind = "Failure" /\ ret[j].cause = "malformed body"

\* C19: a Failure names the username of its own task and the error of the
\* last attempt, attempt number RETRIES: an error of the image GET only if
\* that attempt issued one, an error of the profile status or body only if
\* it did not; main returns it at the position of its task.
C19_FailureNamesOwnLastError ==
    \A i \in Tasks :
        /\ ret[i].kind = "Failure" =>
              /\ ret[i].username = usernames[i]
              /\ ret[i].cause \in Causes
              /\ ret[i].at = RETRIES /\ ret[i].at = attempt[i] + 1
              /\ ret[i].cause = "HTTP Error avatar" => imageGets[i] = 1
              /\ ret[i].cause \in {"HTTP Error", "malformed body"} => imageGets[i] = 0
        /\ mainpc = "returned" => results[i] = ret[i]

\* C19 witness: main returned two Failures for two usernames, each with its
\* own username and its own cause; the first task's earlier attempt had
\* failed on the image GET and its Failure names the profile error of its
\* last attempt.
C19_Witness ==
    /\ mainpc = "returned"
    /\ usernames = <<"a", "b">>
    /\ results[1].kind = "Failure" /\ results[1].username = "a"
    /\ results[1].cause = "malformed body" /\ imageFails[1] >= 1
    /\ results[2].kind = "Failure" /\ results[2].username = "b"
    /\ results[2].cause = "HTTP Error avatar"

\* C20: the GETs in flight are those of the tasks inside the block, one per
\* task, and they are as many as the slots taken, so never more than
\* CONCURRENCY_LIMIT; a task with an image GET in flight holds the profile
\* its current attempt received with status 200 and an avatar reference,
\* and a task with a profile GET in flight has issued no image GET in that
\* attempt.
C20_CallsInsideGate ==
    /\ value >= 0
    /\ Cardinality(Holders) = CONCURRENCY_LIMIT - value
    /\ \A i \in Tasks :
          /\ imageGets[i] <= 1
          /\ pc[i] = "profile" => imageGets[i] = 0 /\ profileGets[i] = attempt[i] + 1
          /\ pc[i] = "image" =>
                /\ data[i].set /\ data[i].avatar
                /\ data[i].src = attempt[i] + 1
                /\ imageGets[i] = 1
                /\ profileGets[i] = attempt[i] + 1

\* C20 witness: in a batch larger than the gate a task has an image GET in
\* flight on a retry, every slot is taken and another task waits.
C20_Witness ==
    /\ Len(usernames) > CONCURRENCY_LIMIT
    /\ value = 0
    /\ \E i, j \in Tasks :
          /\ pc[i] = "image" /\ attempt[i] >= 1
          /\ pc[j] = "acquire"

====
